---- MODULE Spec2Model ----
(***************************************************************************)
(* A model of src/main.rs: four i32 arithmetic functions, the composed     *)
(* complex_operation, the fold process_numbers, greet, the nested module   *)
(* test_module and main.                                                   *)
(*                                                                         *)
(* One behaviour is one invocation of one function ("entry") on arguments  *)
(* drawn from bounded sets; entry = "main" is a run of the binary.  i32    *)
(* arithmetic keeps its 32-bit width: a result outside the i32 range       *)
(* panics when the crate is built with overflow checks (the debug default) *)
(* and wraps modulo 2^32 when it is built without them (the release        *)
(* default).  The build is fixed per behaviour by overflow_checks.         *)
(***************************************************************************)
EXTENDS Integers, Sequences, FiniteSets, TLC

VARIABLES
    entry,            \* the function this behaviour invokes
    overflow_checks,  \* TRUE: built with overflow checks, FALSE: without
    args,             \* the arguments the entry function is invoked with
    pc,               \* position of the single thread of control
    ret,              \* the value the entry function returned
    out               \* the console: the lines printed so far

vars == <<entry, overflow_checks, args, pc, ret, out>>

----------------------------------------------------------------------------
(* Bounds of the model. *)

\* Small integers -Small .. Small are among the sampled i32 arguments.
Small == 2

\* Longest slice handed to process_numbers when it is the entry.
MaxLen == 3

----------------------------------------------------------------------------
(* i32 and the values a call can produce. *)

I32_MAX == 2147483647

I32_MIN == -I32_MAX - 1

I32(v) == [kind |-> "i32", val |-> v]

Some(v) == [kind |-> "Some", val |-> v]

None == [kind |-> "None", val |-> 0]

Unit == [kind |-> "unit", val |-> 0]

\* The thread unwinds: "attempt to add with overflow" and the like.
Panic == [kind |-> "panic", val |-> 0]

\* Whether the mathematical a + b, a - b, a * b is an i32.
AddFits(a, b) == IF b >= 0 THEN a <= I32_MAX - b ELSE a >= I32_MIN - b

SubFits(a, b) == IF b >= 0 THEN a >= I32_MIN + b ELSE a <= I32_MAX + b

\* The least q with q * d >= I32_MIN, for d > 0.
CeilDivMin(d) == (I32_MIN \div d) + (IF I32_MIN % d = 0 THEN 0 ELSE 1)

MulFits(a, b) ==
    IF a = 0 \/ b = 0 THEN TRUE
    ELSE IF a > 0 /\ b > 0 THEN a <= I32_MAX \div b
    ELSE IF a > 0 /\ b < 0 THEN b >= CeilDivMin(a)
    ELSE IF a < 0 /\ b > 0 THEN a >= CeilDivMin(b)
    ELSE a # I32_MIN /\ b # I32_MIN /\ (-a) <= I32_MAX \div (-b)

\* a + b and a - b modulo 2^32 in two's complement, computed without ever
\* leaving the i32 range (2 * I32_MIN = -2^32).
wrapping_add(a, b) ==
    IF AddFits(a, b) THEN a + b
    ELSE IF a > 0 THEN (a + I32_MIN) + (b + I32_MIN)
    ELSE (a - I32_MIN) + (b - I32_MIN)

wrapping_sub(a, b) ==
    IF SubFits(a, b) THEN a - b
    ELSE IF a >= 0 THEN (a + I32_MIN) - (b - I32_MIN)
    ELSE (a - I32_MIN) - (b + I32_MIN)

\* Byte i of the two's complement of v (\div rounds down, % is non-negative).
Byte(v, i) == (v \div 256 ^ i) % 256

\* The 32-bit value with 16-bit halves hi and lo, read as signed.
Signed(hi, lo) == (IF hi >= 32768 THEN hi - 65536 ELSE hi) * 65536 + lo

\* Long multiplication over bytes, keeping the low 32 bits: c0 .. c3 are the
\* column sums of weight 256^0 .. 256^3.
wrapping_mul(a, b) ==
    LET c0 == Byte(a, 0) * Byte(b, 0)
        c1 == Byte(a, 0) * Byte(b, 1) + Byte(a, 1) * Byte(b, 0)
        c2 == Byte(a, 0) * Byte(b, 2) + Byte(a, 1) * Byte(b, 1)
              + Byte(a, 2) * Byte(b, 0)
        c3 == Byte(a, 0) * Byte(b, 3) + Byte(a, 1) * Byte(b, 2)
              + Byte(a, 2) * Byte(b, 1) + Byte(a, 3) * Byte(b, 0)
        t0 == c0 + (c1 % 256) * 256
        hi == (t0 \div 65536) + (c1 \div 256) + c2 + (c3 % 256) * 256
    IN  Signed(hi % 65536, t0 % 65536)

\* a / b of Rust for b # 0 and (a, b) # (I32_MIN, -1): rounds toward zero.
TruncDivPos(a, d) ==
    IF a < 0 /\ a % d # 0 THEN (a \div d) + 1 ELSE a \div d

TruncDiv(a, b) ==
    IF b > 0 THEN TruncDivPos(a, b)
    ELSE IF b = I32_MIN THEN (IF a = I32_MIN THEN 1 ELSE 0)
    ELSE -TruncDivPos(a, -b)

----------------------------------------------------------------------------
(* The functions of main.rs. *)

\* add with the operator mistyped.
add_minus(a, b) ==
    IF SubFits(a, b) THEN I32(a - b)
    ELSE IF overflow_checks THEN Panic
    ELSE I32(wrapping_sub(a, b))

\* fn add(a: i32, b: i32) -> i32 { a + b }
add(a, b) ==
    IF AddFits(a, b) THEN I32(a + b)
    ELSE IF overflow_checks THEN Panic
    ELSE I32(wrapping_add(a, b))

\* subtract with the operator mistyped.
subtract_plus(a, b) ==
    IF AddFits(a, b) THEN I32(a + b)
    ELSE IF overflow_checks THEN Panic
    ELSE I32(wrapping_add(a, b))

\* fn subtract(a: i32, b: i32) -> i32 { a - b }
subtract(a, b) ==
    IF SubFits(a, b) THEN I32(a - b)
    ELSE IF overflow_checks THEN Panic
    ELSE I32(wrapping_sub(a, b))

\* multiply with an operand mistyped: a * a.
multiply_square(a, b) ==
    IF overflow_checks
    THEN (IF MulFits(a, a) THEN I32(a * a) ELSE Panic)
    ELSE I32(wrapping_mul(a, a))

\* fn multiply(a: i32, b: i32) -> i32 { a * b }
multiply(a, b) ==
    IF overflow_checks
    THEN (IF MulFits(a, b) THEN I32(a * b) ELSE Panic)
    ELSE I32(wrapping_mul(a, b))

\* divide with the quotient rounded down instead of toward zero.
divide_floor(a, b) ==
    IF b = 0 THEN None
    ELSE IF a = I32_MIN /\ b = -1 THEN Panic
    ELSE Some(a \div b)

\* divide without the test for zero: a / 0 panics.
divide_unguarded(a, b) ==
    IF b = 0 \/ (a = I32_MIN /\ b = -1) THEN Panic
    ELSE Some(TruncDiv(a, b))

\* fn divide: None on b == 0, else Some(a / b); i32::MIN / -1 overflows, and
\* division overflow panics in every build.
divide(a, b) ==
    IF b = 0 THEN None
    ELSE IF a = I32_MIN /\ b = -1 THEN Panic
    ELSE Some(TruncDiv(a, b))

\* complex_operation with the last two steps in the wrong order.
complex_operation_reordered(x) ==
    LET sum == add(x, 10) IN
    IF sum.kind = "panic" THEN Panic
    ELSE LET prod == multiply(sum.val, 2) IN
         IF prod.kind = "panic" THEN Panic
         ELSE subtract(prod.val, 3)

\* fn complex_operation: add(x, 10), subtract(sum, 3), multiply(diff, 2); a
\* panic in a step unwinds through the caller.
complex_operation(x) ==
    LET sum == add(x, 10) IN
    IF sum.kind = "panic" THEN Panic
    ELSE LET diff == subtract(sum.val, 3) IN
         IF diff.kind = "panic" THEN Panic
         ELSE multiply(diff.val, 2)

\* The loop stopping one element early.
RECURSIVE LoopShort(_, _, _)
LoopShort(total, numbers, i) ==
    IF i >= Len(numbers) THEN I32(total)
    ELSE LET t == add(total, numbers[i]) IN
         IF t.kind = "panic" THEN Panic ELSE LoopShort(t.val, numbers, i + 1)

process_numbers_short(numbers) == LoopShort(0, numbers, 1)

\* fn process_numbers: total = 0; for num in numbers { total = add(total, num) }.
\* Loop(total, numbers, i) is the loop from element i on.
RECURSIVE Loop(_, _, _)
Loop(total, numbers, i) ==
    IF i > Len(numbers) THEN I32(total)
    ELSE LET t == add(total, numbers[i]) IN
         IF t.kind = "panic" THEN Panic ELSE Loop(t.val, numbers, i + 1)

process_numbers(numbers) == Loop(0, numbers, 1)

----------------------------------------------------------------------------
(* Console output. *)

\* What {} prints for an i32: its decimal digits, with a leading - if negative.
Display(v) == ToString(v)

\* The slice printed without the space after each comma.
RECURSIVE DebugItemsTight(_, _)
DebugItemsTight(numbers, i) ==
    IF i > Len(numbers) THEN ""
    ELSE (IF i > 1 THEN "," ELSE "") \o Display(numbers[i])
         \o DebugItemsTight(numbers, i + 1)

DebugTight(numbers) == "[" \o DebugItemsTight(numbers, 1) \o "]"

\* What {:?} prints for a slice of i32: [1, 2, 3].
RECURSIVE DebugItems(_, _)
DebugItems(numbers, i) ==
    IF i > Len(numbers) THEN ""
    ELSE (IF i > 1 THEN ", " ELSE "") \o Display(numbers[i])
         \o DebugItems(numbers, i + 1)

Debug(numbers) == "[" \o DebugItems(numbers, 1) \o "]"

\* println!: one more line on the console.
println(line) == out' = Append(out, line)

\* fn greet(name: &str)
greet(name) == println("Hello, " \o name \o "!")

\* test_module::test1, test2 and the private helper.
test1 == println("Inside test_module::test1")

test2 == println("Inside test_module::test2")

helper == println("Inside test_module::helper")

----------------------------------------------------------------------------
(* main's immutable locals. *)

main_a == 10

main_b == 5

main_name == "Rustacean"

main_numbers == <<1, 2, 3, 4, 5>>

\* The match with its arms exchanged.
match_divide_swapped(r, a, b) ==
    IF r.kind = "None"
    THEN Display(a) \o " / " \o Display(b) \o " = " \o Display(r.val)
    ELSE "Division by zero!"

\* The line main's match on divide(a, b) prints for the outcome r.
match_divide(r, a, b) ==
    IF r.kind = "Some"
    THEN Display(a) \o " / " \o Display(b) \o " = " \o Display(r.val)
    ELSE "Division by zero!"

----------------------------------------------------------------------------
(* The sampled arguments. *)

\* i32 values at the ends of the range, around the thresholds at which
\* (x + 7) * 2 and a square leave it, and around zero.
Samples ==
    {I32_MIN, I32_MIN + 1, I32_MAX - 1, I32_MAX,
     I32_MIN \div 2 - 8, I32_MIN \div 2 - 7, I32_MAX \div 2 - 7, I32_MAX \div 2 - 6,
     -65536, 46340, 46341, 65536, main_a, main_b}
    \cup (-Small .. Small)

\* Elements of the slices handed to process_numbers.
Elems == {I32_MIN, -1, 1, 2, I32_MAX}

Slices == UNION {[1 .. n -> Elems] : n \in 0 .. MaxLen} \cup {main_numbers}

Names == {main_name, "", "world"}

Binary == {"add", "subtract", "multiply", "divide"}

Entries ==
    Binary \cup {"complex_operation", "process_numbers", "greet",
                 "test1", "test2", "run_tests", "main"}

\* The arguments an entry can be invoked with.
ArgsOf(e) ==
    IF e \in Binary THEN {<<a, b>> : a \in Samples, b \in Samples}
    ELSE IF e = "complex_operation" THEN {<<x>> : x \in Samples}
    ELSE IF e = "process_numbers" THEN {<<numbers>> : numbers \in Slices}
    ELSE IF e = "greet" THEN {<<name>> : name \in Names}
    ELSE {<<>>}

----------------------------------------------------------------------------
(* The state machine. *)

Init ==
    /\ entry \in Entries
    /\ overflow_checks \in BOOLEAN
    /\ args \in ArgsOf(entry)
    /\ pc = entry
    /\ ret = Unit
    /\ out = <<>>

\* The entry function returns r to its caller, or unwinds.
Return(r) ==
    /\ pc' = IF r.kind = "panic" THEN "panicked" ELSE "done"
    /\ ret' = r
    /\ UNCHANGED <<entry, overflow_checks, args, out>>

\* main prints line and moves on to next, or unwinds if computing the line
\* panicked.
MainPrint(r, line, next) ==
    /\ IF r.kind = "panic"
       THEN pc' = "panicked" /\ ret' = Panic /\ out' = out
       ELSE pc' = next /\ ret' = ret /\ println(line)
    /\ UNCHANGED <<entry, overflow_checks, args>>

\* A function that only prints: the console grows, control moves to next.
Goto(next) ==
    /\ pc' = next
    /\ UNCHANGED <<entry, overflow_checks, args, ret>>

CallAdd == pc = "add" /\ Return(add(args[1], args[2]))

CallSubtract == pc = "subtract" /\ Return(subtract(args[1], args[2]))

CallMultiply == pc = "multiply" /\ Return(multiply(args[1], args[2]))

CallDivide == pc = "divide" /\ Return(divide(args[1], args[2]))

CallComplexOperation ==
    pc = "complex_operation" /\ Return(complex_operation(args[1]))

CallProcessNumbers ==
    pc = "process_numbers" /\ Return(process_numbers(args[1]))

CallGreet == pc = "greet" /\ greet(args[1]) /\ Goto("done")

CallTest1 == pc = "test1" /\ test1 /\ Goto("done")

CallTest2 == pc = "test2" /\ test2 /\ Goto("done")

\* run_tests calling test2 where it calls test1.
RunTestsTest1Wrong == pc = "run_tests_test1" /\ test2 /\ Goto("run_tests_test2")

\* run_tests: helper(); test1(); test2();
RunTestsHelper == pc = "run_tests" /\ helper /\ Goto("run_tests_test1")

RunTestsTest1 == pc = "run_tests_test1" /\ test1 /\ Goto("run_tests_test2")

RunTestsTest2 == pc = "run_tests_test2" /\ test2 /\ Goto("done")

\* main, statement by statement.
MainAdd ==
    /\ pc = "main"
    /\ LET r == add(main_a, main_b) IN
       MainPrint(r, Display(main_a) \o " + " \o Display(main_b) \o " = "
                    \o Display(r.val), "main_subtract")

MainSubtract ==
    /\ pc = "main_subtract"
    /\ LET r == subtract(main_a, main_b) IN
       MainPrint(r, Display(main_a) \o " - " \o Display(main_b) \o " = "
                    \o Display(r.val), "main_multiply")

MainMultiply ==
    /\ pc = "main_multiply"
    /\ LET r == multiply(main_a, main_b) IN
       MainPrint(r, Display(main_a) \o " * " \o Display(main_b) \o " = "
                    \o Display(r.val), "main_divide")

MainDivide ==
    /\ pc = "main_divide"
    /\ LET r == divide(main_a, main_b) IN
       MainPrint(r, match_divide(r, main_a, main_b), "main_complex_operation")

MainComplexOperation ==
    /\ pc = "main_complex_operation"
    /\ LET r == complex_operation(main_a) IN
       MainPrint(r, "complex_operation(" \o Display(main_a) \o ") = "
                    \o Display(r.val), "main_greet")

MainGreet == pc = "main_greet" /\ greet(main_name) /\ Goto("main_process_numbers")

MainProcessNumbers ==
    /\ pc = "main_process_numbers"
    /\ LET r == process_numbers(main_numbers) IN
       MainPrint(r, "The sum of " \o Debug(main_numbers) \o " is "
                    \o Display(r.val), "main_run_tests")

MainRunTests == pc = "main_run_tests" /\ out' = out /\ Goto("run_tests")

Next ==
    \/ CallAdd
    \/ CallSubtract
    \/ CallMultiply
    \/ CallDivide
    \/ CallComplexOperation
    \/ CallProcessNumbers
    \/ CallGreet
    \/ CallTest1
    \/ CallTest2
    \/ RunTestsHelper
    \/ RunTestsTest1
    \/ RunTestsTest2
    \/ MainAdd
    \/ MainSubtract
    \/ MainMultiply
    \/ MainDivide
    \/ MainComplexOperation
    \/ MainGreet
    \/ MainProcessNumbers
    \/ MainRunTests

Spec == Init /\ [][Next]_vars

\* The thread of control is never suspended: an enabled step is taken.
FairSpec == Spec /\ WF_vars(Next)

----------------------------------------------------------------------------
(* Mathematical integers for the properties: a pair <<h, l>> stands for     *)
(* h * 65536 + l with 0 <= l < 65536, so sums and differences of a few i32  *)
(* values are exact although they leave the i32 range.                      *)

Wide(v) == <<v \div 65536, v % 65536>>

WNorm(h, l) == <<h + (l \div 65536), l % 65536>>

WAdd(p, q) == WNorm(p[1] + q[1], p[2] + q[2])

WSub(p, q) == WNorm(p[1] - q[1], p[2] - q[2])

WNeg(p) == WNorm(-p[1], -p[2])

\* p is the value of an i32.
WFits(p) == p[1] >= -32768 /\ p[1] <= 32767

\* p and q agree modulo 2^32.
WSame32(p, q) == p[2] = q[2] /\ (p[1] - q[1]) % 65536 = 0

\* The sum of the first k elements of numbers.
RECURSIVE WSum(_, _)
WSum(numbers, k) ==
    IF k = 0 THEN Wide(0) ELSE WAdd(WSum(numbers, k - 1), Wide(numbers[k]))

\* No partial sum of numbers, taken left to right, leaves the i32 range.
PrefixFits(numbers) == \A k \in 0 .. Len(numbers) : WFits(WSum(numbers, k))

\* The rearrangements of numbers.
Rearrangements(numbers) ==
    LET n == Len(numbers) IN
    {[i \in 1 .. n |-> numbers[f[i]]] :
        f \in {g \in [1 .. n -> 1 .. n] : \A i, j \in 1 .. n : g[i] = g[j] => i = j}}

\* |r| < |b|, without negating either.
AbsLess(r, b) ==
    IF r >= 0 THEN (IF b > 0 THEN r < b ELSE r + b < 0)
    ELSE (IF b < 0 THEN r > b ELSE r + b > 0)

\* q is a / b rounded toward zero: a = q * b + r with |r| < |b| and r zero or
\* of the sign of a.
IsTruncQuotient(q, a, b) ==
    /\ MulFits(q, b)
    /\ SubFits(a, q * b)
    /\ LET r == a - q * b IN
       /\ AbsLess(r, b)
       /\ r = 0 \/ ((r > 0) <=> (a > 0))

\* The entry function is entry e and has run to its end, normally or not.
Ran(e) == entry = e /\ pc # e

----------------------------------------------------------------------------
(* divide *)

\* C1 as stated: for every b # 0, the pair (I32_MIN, -1) included, divide(a, b)
\* returns Some(q) with q the quotient a / b rounded toward zero, and never
\* faults.
C1_AsStated ==
    (Ran("divide") /\ args[2] # 0)
        => /\ pc = "done"
           /\ ret.kind = "Some"
           /\ IsTruncQuotient(ret.val, args[1], args[2])

\* C1, amended: for every b # 0 and (a, b) # (I32_MIN, -1), divide(a, b)
\* returns Some(q) with q the quotient a / b rounded toward zero; the quotient
\* of divide(I32_MIN, -1) is 2^31, which is no i32, and the call panics.
C1_Divide ==
    (Ran("divide") /\ args[2] # 0)
        => IF args[1] = I32_MIN /\ args[2] = -1
           THEN pc = "panicked"
           ELSE /\ pc = "done"
                /\ ret.kind = "Some"
                /\ IsTruncQuotient(ret.val, args[1], args[2])

\* A quotient that rounding toward zero and rounding down tell apart.
C1_Witness ==
    /\ Ran("divide")
    /\ pc = "done"
    /\ args = <<-65536, I32_MAX>>
    /\ ret = Some(0)

\* C2: for every a, divide(a, 0) returns None: no fault, no number, and
\* nothing printed.
C2_DivideByZero ==
    (Ran("divide") /\ args[2] = 0)
        => /\ pc = "done"
           /\ ret = None
           /\ out = <<>>

C2_Witness ==
    /\ Ran("divide")
    /\ args = <<I32_MIN, 0>>
    /\ ret = None

----------------------------------------------------------------------------
(* complex_operation *)

\* ((x + 10) - 3) * 2 over the integers.
ComplexValue(x) ==
    LET d == WSub(WAdd(Wide(x), Wide(10)), Wide(3)) IN WAdd(d, d)

\* C3 as stated: for every i32 x, complex_operation(x) returns
\* ((x + 10) - 3) * 2.
C3_AsStated ==
    Ran("complex_operation")
        => /\ pc = "done"
           /\ ret.kind = "i32"
           /\ Wide(ret.val) = ComplexValue(args[1])

\* C3, amended: for every i32 x for which ((x + 10) - 3) * 2 is an i32 (x from
\* -1073741831 to 1073741816), complex_operation(x) returns that value, and
\* complex_operation(10) = 34; for any other x a step overflows, and the call
\* panics when built with overflow checks and otherwise returns the value
\* reduced modulo 2^32.
C3_ComplexOperation ==
    Ran("complex_operation")
        => /\ WFits(ComplexValue(args[1]))
                <=> (args[1] >= -1073741831 /\ args[1] <= 1073741816)
           /\ WFits(ComplexValue(args[1]))
                => /\ pc = "done"
                   /\ ret.kind = "i32"
                   /\ Wide(ret.val) = ComplexValue(args[1])
           /\ (~WFits(ComplexValue(args[1])) /\ overflow_checks)
                => pc = "panicked"
           /\ (~WFits(ComplexValue(args[1])) /\ ~overflow_checks)
                => /\ pc = "done"
                   /\ ret.kind = "i32"
                   /\ WSame32(Wide(ret.val), ComplexValue(args[1]))
           /\ args[1] = 10 => ret = I32(34)

C3_Witness ==
    /\ Ran("complex_operation")
    /\ args = <<10>>
    /\ ret = I32(34)

----------------------------------------------------------------------------
(* process_numbers *)

\* C4 as stated: for every slice of i32, process_numbers returns the sum of
\* the elements (0 for the empty slice), and the same for every rearrangement
\* of the slice.
C4_AsStated ==
    Ran("process_numbers")
        => /\ pc = "done"
           /\ ret.kind = "i32"
           /\ Wide(ret.val) = WSum(args[1], Len(args[1]))
           /\ \A p \in Rearrangements(args[1]) : process_numbers(p) = ret

\* C4, amended: for every slice none of whose left-to-right partial sums
\* leaves the i32 range, process_numbers returns the sum of the elements (0 for
\* the empty slice), and the same for every rearrangement whose partial sums
\* stay in range too.  When a partial sum leaves the range, a build with
\* overflow checks panics, and a build without them returns the sum reduced
\* modulo 2^32, the same for every rearrangement.
C4_ProcessNumbers ==
    Ran("process_numbers")
        => /\ PrefixFits(args[1])
                => /\ pc = "done"
                   /\ ret.kind = "i32"
                   /\ Wide(ret.val) = WSum(args[1], Len(args[1]))
                   /\ \A p \in Rearrangements(args[1]) :
                        PrefixFits(p) => process_numbers(p) = ret
           /\ args[1] = <<>> => ret = I32(0)
           /\ (~PrefixFits(args[1]) /\ overflow_checks) => pc = "panicked"
           /\ ~overflow_checks
                => /\ pc = "done"
                   /\ ret.kind = "i32"
                   /\ WSame32(Wide(ret.val), WSum(args[1], Len(args[1])))
                   /\ \A p \in Rearrangements(args[1]) : process_numbers(p) = ret

\* A slice summed in range, one rearrangement of which is not.
C4_Witness ==
    /\ Ran("process_numbers")
    /\ args = <<<<I32_MAX, -1, 1>>>>
    /\ ret = I32(I32_MAX)

----------------------------------------------------------------------------
(* add, subtract, multiply *)

\* Whether the mathematical result of entry e on (a, b) is an i32.
ResultFits(e, a, b) ==
    IF e = "add" THEN WFits(WAdd(Wide(a), Wide(b)))
    ELSE IF e = "subtract" THEN WFits(WSub(Wide(a), Wide(b)))
    ELSE MulFits(a, b)

\* v is the mathematical result of entry e on (a, b), which is an i32.
IsResult(v, e, a, b) ==
    IF e = "add" THEN Wide(v) = WAdd(Wide(a), Wide(b))
    ELSE IF e = "subtract" THEN Wide(v) = WSub(Wide(a), Wide(b))
    ELSE v = a * b

Arithmetic == {"add", "subtract", "multiply"}

\* C5 as stated: add, subtract and multiply return a value for every pair of
\* i32, also when the mathematical result is no i32, and print nothing.
C5_AsStated ==
    (entry \in Arithmetic /\ pc # entry)
        => /\ pc = "done"
           /\ ret.kind = "i32"
           /\ out = <<>>

\* C5, amended: add, subtract and multiply return the mathematical result for
\* every pair for which it is an i32; for a pair for which it is not, they
\* return an i32 when built without overflow checks and panic when built with
\* them.  In no case do they print or change anything.
C5_Arithmetic ==
    (entry \in Arithmetic /\ pc # entry)
        => /\ out = <<>>
           /\ ResultFits(entry, args[1], args[2])
                => /\ pc = "done"
                   /\ ret.kind = "i32"
                   /\ IsResult(ret.val, entry, args[1], args[2])
           /\ (~ResultFits(entry, args[1], args[2]) /\ overflow_checks)
                => pc = "panicked"
           /\ (~ResultFits(entry, args[1], args[2]) /\ ~overflow_checks)
                => /\ pc = "done"
                   /\ ret.kind = "i32"
                   /\ ret.val >= I32_MIN /\ ret.val <= I32_MAX

\* A product that is an i32 only just.
C5_Witness ==
    /\ Ran("multiply")
    /\ args = <<46340, 46340>>
    /\ ret = I32(2147395600)

\* C6: add(a, b) and add(b, a) have the same outcome, and so have
\* multiply(a, b) and multiply(b, a): the same value, or both overflow.
C6_Commutative ==
    /\ Ran("add") => ret = add(args[2], args[1])
    /\ Ran("multiply") => ret = multiply(args[2], args[1])

C6_Witness ==
    /\ Ran("multiply")
    /\ args = <<-65536, 2>>
    /\ ret = I32(-131072)

\* -v of Rust for an i32 v: -I32_MIN is no i32, and overflows like a sum does.
neg(v) ==
    IF v # I32_MIN THEN I32(-v)
    ELSE IF overflow_checks THEN Panic
    ELSE I32(I32_MIN)

\* The outcome of -subtract(b, a): a panic in the call unwinds past the
\* negation.
NegSubtract(b, a) ==
    IF subtract(b, a).kind = "panic" THEN Panic ELSE neg(subtract(b, a).val)

\* C7 as stated: for every pair of i32, those with a difference of I32_MIN or
\* outside the i32 range included, subtract(a, b) and -subtract(b, a) have the
\* same outcome.
C7_AsStated == Ran("subtract") => ret = NegSubtract(args[2], args[1])

\* C7, amended: for every pair of i32 with a - b from -2147483647 to
\* 2147483647, subtract(a, b) == -subtract(b, a), both being the exact
\* difference.  For any other pair a build without overflow checks wraps and
\* the two sides are still equal; a build with overflow checks panics on both
\* sides when a - b is outside the i32 range, and when a - b = I32_MIN
\* subtract(a, b) returns I32_MIN while subtract(b, a) panics.
C7_Antisymmetric ==
    Ran("subtract")
        => LET d == WSub(Wide(args[1]), Wide(args[2]))
               back == NegSubtract(args[2], args[1])
           IN  /\ (WFits(d) /\ WFits(WNeg(d)))
                    => /\ pc = "done"
                       /\ ret = back
                       /\ Wide(ret.val) = d
               /\ ~overflow_checks
                    => /\ pc = "done"
                       /\ ret = back
                       /\ WSame32(Wide(ret.val), d)
               /\ (overflow_checks /\ ~WFits(d))
                    => pc = "panicked" /\ back = Panic
               /\ (overflow_checks /\ d = Wide(I32_MIN))
                    => ret = I32(I32_MIN) /\ back = Panic

C7_Witness ==
    /\ Ran("subtract")
    /\ args = <<I32_MIN + 1, 0>>
    /\ ret = I32(-I32_MAX)

----------------------------------------------------------------------------
(* test_module and main *)

RunTestsLines ==
    <<"Inside test_module::helper", "Inside test_module::test1",
      "Inside test_module::test2">>

MainLines ==
    <<"10 + 5 = 15", "10 - 5 = 5", "10 * 5 = 50", "10 / 5 = 2",
      "complex_operation(10) = 34", "Hello, Rustacean!",
      "The sum of [1, 2, 3, 4, 5] is 15">> \o RunTestsLines

\* C8: an invocation of run_tests prints the helper line, the test1 line and
\* the test2 line, in that order and nothing else; the helper line is printed
\* by run_tests only, so each helper line on the console is followed by the
\* test1 line and then by the test2 line as soon as run_tests has moved on.
C8_RunTests ==
    /\ (entry = "run_tests" /\ pc = "done") => out = RunTestsLines
    /\ (entry = "main" /\ pc = "done")
            => SubSeq(out, Len(out) - 2, Len(out)) = RunTestsLines
    /\ \A i \in 1 .. Len(out) :
            out[i] = RunTestsLines[1]
                => /\ entry \in {"run_tests", "main"}
                   /\ i = Len(out) <=> pc = "run_tests_test1"
                   /\ i + 1 = Len(out) <=> pc = "run_tests_test2"
                   /\ i + 2 = Len(out) <=> pc = "done"
                   /\ i + 1 <= Len(out) => out[i + 1] = RunTestsLines[2]
                   /\ i + 2 <= Len(out) => out[i + 2] = RunTestsLines[3]
    /\ pc \in {"run_tests_test1", "run_tests_test2"}
            => \E i \in 1 .. Len(out) : out[i] = RunTestsLines[1]

C8_Witness ==
    /\ entry = "run_tests"
    /\ pc = "done"
    /\ out = RunTestsLines

\* C9: a run of main never faults, prints the ten lines of MainLines in
\* order, none omitted, repeated or out of place, and then ends.
C9_Main ==
    /\ [](entry = "main"
            => /\ pc # "panicked"
               /\ Len(out) <= Len(MainLines)
               /\ out = SubSeq(MainLines, 1, Len(out))
               /\ pc = "done" => out = MainLines)
    /\ (entry = "main") ~> (pc = "done" /\ out = MainLines)

C9_Witness ==
    /\ entry = "main"
    /\ pc = "done"
    /\ Len(out) = 10

\* C10: main's division step prints exactly one line, "Division by zero!" if
\* and only if divide returned None, which it does if and only if b = 0, and
\* otherwise "a / b = q" with q the quotient; main goes on to its next
\* statement either way, and with a = 10 and b = 5 "Division by zero!" is never
\* printed.
C10_DivisionStep ==
    /\ (entry = "main" /\ pc = "main_complex_operation")
            => /\ Len(out) = 4
               /\ out[4] = "Division by zero!" <=> main_b = 0
               /\ main_b # 0 => out[4] = "10 / 5 = 2"
    /\ entry = "main" => \A i \in 1 .. Len(out) : out[i] # "Division by zero!"
    /\ (entry = "main" /\ pc = "main_divide") => Len(out) = 3
    /\ (Ran("divide") /\ pc = "done")
            => /\ match_divide(ret, args[1], args[2]) = "Division by zero!"
                    <=> args[2] = 0
               /\ ret = None <=> args[2] = 0
               /\ args[2] # 0
                    => match_divide(ret, args[1], args[2])
                        = Display(args[1]) \o " / " \o Display(args[2])
                          \o " = " \o Display(ret.val)

C10_Witness ==
    /\ entry = "main"
    /\ pc = "main_complex_operation"
    /\ out[4] = "10 / 5 = 2"

====
